---- MODULE Spec2Model ----
(***************************************************************************)
(* The HBCD to ReproSchema conversion pipeline: scripts/convert.py and its *)
(* wrapper scripts/download_and_convert.py.  Both are sequential scripts;  *)
(* the state is the files they touch, the position of the script, what it  *)
(* printed, the external commands it invoked and its exit status.  The     *)
(* external programs (HTTP server, Rscript, reproschema, git) are the      *)
(* environment: each invocation ends in one of the outcomes the script     *)
(* distinguishes.                                                          *)
(***************************************************************************)
EXTENDS Naturals, Integers, Sequences, FiniteSets, TLC

\* ------------------------------------------------------------------ bounds
\* Number of successive runs of convert.py over the same working tree.
MaxRuns == 2
\* Longest list of releases held by the downloaded RDA file.
MaxReleases == 2
\* Longest captured stdout (in lines) of the wrapper's convert.py subprocess.
MaxStdoutLines == 3
\* Largest number of existing git tags the version diff is given.
MaxTags == 2

\* ------------------------------------------------------------- vocabulary
\* Release names as they occur in names(lst_dds$hbcd).
ReleaseNames == {"1.0", "2.0"}
\* args.release absent (argparse default of a non-required option).
None == "<None>"
\* Outcomes of subprocess.run the scripts tell apart: exit 0, exit non-zero,
\* and FileNotFoundError (the executable is not installed).
ProcOutcomes == {"ok", "nonzero", "notfound"}

RECURSIVE SeqsUpTo(_, _)
\* Duplicate-free sequences over S of length at most n.
SeqsUpTo(S, n) ==
  IF n = 0 THEN {<<>>}
  ELSE LET shorter == SeqsUpTo(S, n - 1)
       IN  shorter \cup
           {Append(s, x) : s \in {t \in shorter : Len(t) = n - 1},
                           x \in S}

Range(s) == {s[i] : i \in 1..Len(s)}
NoDup(s) == \A i, j \in 1..Len(s) : i # j => s[i] # s[j]
RdaContents == {s \in SeqsUpTo(ReleaseNames, MaxReleases) : NoDup(s)}

\* ------------------------------------------------- string handling (Python)
\* Text is a sequence of pieces: a release name, a separator or a blank is
\* one piece each.
Whitespace == {" ", "\n"}

RECURSIVE LStrip(_)
LStrip(s) ==
  IF s # <<>> /\ Head(s) \in Whitespace THEN LStrip(Tail(s)) ELSE s

RECURSIVE RStrip(_)
RStrip(s) ==
  IF s # <<>> /\ s[Len(s)] \in Whitespace
  THEN RStrip(SubSeq(s, 1, Len(s) - 1)) ELSE s

\* str.strip()
Strip(s) == RStrip(LStrip(s))

\* str.startswith(p)
StartsWith(s, p) == Len(s) >= Len(p) /\ SubSeq(s, 1, Len(p)) = p

RECURSIVE Split(_, _)
\* str.split(sep): the parts between the occurrences of sep.
Split(s, sep) ==
  IF \A i \in 1..Len(s) : s[i] # sep THEN <<s>>
  ELSE LET i == CHOOSE k \in 1..Len(s) :
                  s[k] = sep /\ \A j \in 1..(k - 1) : s[j] # sep
       IN  <<SubSeq(s, 1, i - 1)>> \o Split(SubSeq(s, i + 1, Len(s)), sep)

\* str.split(sep, 1)[1]: what follows the first occurrence of sep.
AfterFirst(s, sep) ==
  LET i == CHOOSE k \in 1..Len(s) :
             s[k] = sep /\ \A j \in 1..(k - 1) : s[j] # sep
  IN  SubSeq(s, i + 1, Len(s))

RECURSIVE Concat(_)
\* The string a sequence of pieces spells.
Concat(s) == IF s = <<>> THEN "" ELSE Head(s) \o Concat(Tail(s))

RECURSIVE JoinPieces(_, _)
\* paste(releases, collapse=","): the names with the separator between them.
JoinPieces(names, sep) ==
  IF names = <<>> THEN <<>>
  ELSE IF Len(names) = 1 THEN <<names[1]>>
  ELSE <<names[1], sep>> \o JoinPieces(Tail(names), sep)

\* cat("ALL_VERSIONS:", paste(releases, collapse=","), "\n"): cat puts one
\* blank between its arguments.
RListVersionsStdout(releases) ==
  <<"ALL_VERSIONS", ":", " ">> \o JoinPieces(releases, ",") \o <<" ", "\n">>

RECURSIVE StripEach(_)
\* [v.strip() for v in parts if v.strip()]
StripEach(parts) ==
  IF parts = <<>> THEN <<>>
  ELSE LET v == Strip(Head(parts))
       IN  IF v = <<>> THEN StripEach(Tail(parts))
           ELSE <<Concat(v)>> \o StripEach(Tail(parts))

\* A mutation of ParseVersions: the list is cut at the first comma.
ParseVersionsFirstOnly(stdout) ==
  LET versions_output == Strip(stdout)
  IN  IF StartsWith(versions_output, <<"ALL_VERSIONS", ":">>)
      THEN StripEach(<<Head(Split(AfterFirst(versions_output, ":"), ","))>>)
      ELSE <<>>

\* The parse of the version listing's stdout into all_versions.
ParseVersions(stdout) ==
  LET versions_output == Strip(stdout)
  IN  IF StartsWith(versions_output, <<"ALL_VERSIONS", ":">>)
      THEN StripEach(Split(AfterFirst(versions_output, ":"), ","))
      ELSE <<>>

\* ------------------------------------------------------------------ state
VARIABLES
  entry,      \* which script the user started: "convert" or "wrapper"
  \* --- convert.py
  args,       \* parsed command line: release, skip_extract, keep_data
  pc,         \* position of convert.py's main
  fs,         \* files: data/lst_dds.rda, data/hbcd_<release>.csv, HBCD/,
              \* HBCD2reproschema/ and source_version of hbcd_nbdc2rs.yaml
  all_versions, \* the releases parsed from the version listing
  versions,   \* the list extract_version_from_rda returned
  version,    \* versions[0]
  stdout,     \* the lines printed by the current run
  log,        \* the steps taken so far, with their outcomes, over all runs
  exitCode,   \* exit status of the current run (meaningful at pc = "exited")
  run,        \* index of the current run
  \* --- download_and_convert.py
  wargs,      \* parsed command line: release, create_tag
  wpc,        \* position of the wrapper's main
  wrda,       \* scripts/data/lst_dds.rda exists
  fetched,    \* the wrapper's download: "pending", "ok" or "failed"
  result,     \* the completed convert.py subprocess: launched, stdout, returncode
  report,     \* version and status parsed from result.stdout, outputs written
  tagCalls,   \* the tag names git was invoked with
  wexit,      \* exit status of the wrapper (meaningful at wpc = "exited")
  \* --- version diffing
  diff        \* existing git tags, and the unconverted releases once computed

cvars == <<args, pc, fs, all_versions, versions, version, stdout, log, exitCode, run>>
wvars == <<wargs, wpc, wrda, fetched, result, report, tagCalls, wexit>>
vars == <<entry, cvars, wvars, diff>>

\* ------------------------------------------------------ lines convert.py prints
LineDownloading == <<"Downloading", "lst_dds.rda", "from", "NBDCtoolsData...">>
LineDownloaded == <<"Downloaded", "data/lst_dds.rda">>
LineErrorDownloading == <<"Error", "downloading", "lst_dds.rda", ":">>
LineFailedDownload == <<"Error", ":", "Failed", "to", "download", "RDA", "file">>
LineExtractingVersion ==
  <<"Extracting", "version", "information", "from", "data/lst_dds.rda...">>
LineErrorVersions == <<"Error", "extracting", "versions", "from", "RDA", ":">>
LineUnexpectedFormat == <<"Unexpected", "output", "format", ":">>
LineAllReleases(found) ==
  <<"All", "available", "releases", "in", "RDA", ":">> \o found
LineVersionNotFound(v) ==
  <<"Error", ":", "Version", v, "not", "found", "in", "RDA">>
LineAvailable(found) ==
  <<"Available", "versions", ":">> \o found
LineNoVersions == <<"Error", ":", "No", "versions", "found", "in", "RDA">>
LineConverting(v) == <<"===", "Converting", "HBCD", "release", v, "===">>
LineExtracting(v) == <<"Extracting", "HBCD", v, "data", "dictionary...">>
LineRunning(v) == <<"Running", ":", "Rscript", "extract_release.R", v>>
LineErrorExtracting == <<"Error", "extracting", "data", "dictionary", ":">>
LineToReproschema == <<"Converting", "to", "ReproSchema", "format...">>
LineSetSourceVersion(v) ==
  <<"Set", "source_version", "to", v, "(extracted", "from", "RDA)">>
LineConversionComplete ==
  <<"Conversion", "complete", ".", "Output", "in", "HBCD/">>
LineNoOutputDir ==
  <<"Error", ":", "Expected", "output", "directory", "HBCD", "not", "found">>
LineErrorDuringConversion == <<"Error", "during", "conversion", ":">>
LineCommandNotFound ==
  <<"Error", ":", "reproschema", "command", "not", "found", ".">>
LineValidating == <<"Validating", "ReproSchema", "output...">>
LineValidationPassed == <<"Validation", "passed!">>
LineValidationWarnings == <<"Validation", "warnings/errors", ":">>
LineNoValidation == <<"Warning", ":", "Could", "not", "run", "validation">>
LineDone == <<"Done!">>
LineRemovingRda == <<"Removing", "data/lst_dds.rda">>
LineRemovingCsv == <<"Removing", "temporary", "CSV", ":">>

\* ------------------------------------------------------------ convert.py
\* One step of a run, as the log keeps it.
Step(name, v, outcome) ==
  [run |-> run, step |-> name, version |-> v, outcome |-> outcome]

\* A mutation of DownloadReturnsPath: a copy already on disk is used when
\* the request fails.
DownloadOrLocalCopy(ok, localCopy) == ok \/ localCopy

\* Whether download_rda_file returns a path (rather than None): only when the
\* HTTP request succeeded; a copy already on disk plays no part.
DownloadReturnsPath(ok, localCopy) == ok

\* A mutation of VersionAccepted: the requested release is not looked up.
VersionAcceptedAlways(release_version, found) == TRUE

\* extract_version_from_rda's check of a requested release against the RDA.
VersionAccepted(release_version, found) ==
  release_version \in Range(found)

\* A mutation of ExtractionFatal: the extraction's exit code is not looked at.
ExtractionIgnored(outcome) == FALSE

\* Whether main stops after the extraction subprocess.
ExtractionFatal(outcome) == outcome # "ok"

\* A mutation of ValidationFatal: a failed validation stops the run.
ValidationStrict(outcome) == outcome # "ok"

\* Whether main stops after `reproschema validate`: it never does.
ValidationFatal(outcome) == FALSE

\* `shutil` is used by main but is not among the module's imports.
ShutilImported == FALSE

CInit ==
  /\ args \in [release : ReleaseNames \cup {""},
               skip_extract : BOOLEAN, keep_data : BOOLEAN]
  /\ pc = "download"
  /\ fs \in [rda : {[exists |-> FALSE, releases |-> <<>>],
                    [exists |-> TRUE, releases |-> <<"1.0">>]},
             csv : BOOLEAN, outdir : BOOLEAN, oldoutdir : BOOLEAN,
             source_version : {"1.0"}]
  /\ all_versions = <<>>
  /\ versions = <<>>
  /\ version = ""
  /\ stdout = <<>>
  /\ log = <<>>
  /\ exitCode = 0
  /\ run = 1

CIdle ==
  /\ args = [release |-> "", skip_extract |-> FALSE, keep_data |-> FALSE]
  /\ pc = "idle"
  /\ fs = [rda |-> [exists |-> FALSE, releases |-> <<>>], csv |-> FALSE,
           outdir |-> FALSE, oldoutdir |-> FALSE, source_version |-> "1.0"]
  /\ all_versions = <<>>
  /\ versions = <<>>
  /\ version = ""
  /\ stdout = <<>>
  /\ log = <<>>
  /\ exitCode = 0
  /\ run = 1

\* sys.exit(1), or an exception nothing catches, before main's try block:
\* the process ends at once.  Inside the try block the finally clause runs
\* first.
ExitBeforeTry == pc' = "exited" /\ exitCode' = 1
ExitInsideTry == pc' = "cleanup" /\ exitCode' = 1

\* main, lines 147-154, with download_rda_file.
Download ==
  /\ pc = "download"
  /\ \E ok \in BOOLEAN, content \in RdaContents :
       /\ ~ok => content = <<>>
       /\ log' = Append(log, Step("download", "", IF ok THEN "ok" ELSE "failed"))
       /\ IF DownloadReturnsPath(ok, fs.rda.exists)
          THEN /\ fs' = IF ok
                        THEN [fs EXCEPT !.rda = [exists |-> TRUE,
                                                 releases |-> content]]
                        ELSE fs
               /\ stdout' = stdout \o <<LineDownloading, LineDownloaded>>
               /\ pc' = "resolve"
               /\ exitCode' = exitCode
          ELSE /\ fs' = fs
               /\ stdout' = stdout \o <<LineDownloading, LineErrorDownloading,
                                        LineFailedDownload>>
               /\ ExitBeforeTry
  /\ UNCHANGED <<entry, args, all_versions, versions, version, run, wvars, diff>>

\* extract_version_from_rda and main, lines 156-164.
ResolveVersion ==
  /\ pc = "resolve"
  /\ \E outcome \in ProcOutcomes, garbled \in BOOLEAN :
       LET out == IF garbled THEN <<"NULL", "\n">>
                  ELSE RListVersionsStdout(fs.rda.releases)
           parsed == ParseVersions(out)
           printed == stdout \o <<LineExtractingVersion>>
           listed == printed
                       \o (IF garbled THEN <<LineUnexpectedFormat>> ELSE <<>>)
                       \o <<LineAllReleases(parsed)>>
           rejected == /\ args.release # ""
                       /\ ~VersionAccepted(args.release, parsed)
           vs == IF args.release # "" THEN <<args.release>> ELSE parsed
       IN  /\ garbled => outcome = "ok"
           /\ log' = Append(log, Step("Rscript -e", args.release, outcome))
           /\ all_versions' = IF outcome = "ok" THEN parsed ELSE all_versions
           /\ CASE outcome = "notfound" ->
                     /\ stdout' = printed
                     /\ ExitBeforeTry
                     /\ UNCHANGED <<versions, version>>
                [] outcome = "nonzero" ->
                     /\ stdout' = printed \o <<LineErrorVersions>>
                     /\ ExitBeforeTry
                     /\ UNCHANGED <<versions, version>>
                [] outcome = "ok" /\ rejected ->
                     /\ stdout' = listed \o <<LineVersionNotFound(args.release),
                                              LineAvailable(parsed)>>
                     /\ ExitBeforeTry
                     /\ UNCHANGED <<versions, version>>
                [] outcome = "ok" /\ ~rejected /\ vs = <<>> ->
                     /\ stdout' = listed \o <<LineNoVersions>>
                     /\ ExitBeforeTry
                     /\ versions' = vs
                     /\ UNCHANGED version
                [] OTHER ->
                     /\ versions' = vs
                     /\ version' = vs[1]
                     /\ stdout' = listed \o <<LineConverting(vs[1])>>
                     /\ pc' = IF args.skip_extract THEN "prepare" ELSE "extract"
                     /\ exitCode' = exitCode
  /\ UNCHANGED <<entry, args, fs, run, wvars, diff>>

\* main, lines 167-179: the extraction subprocess.
Extract ==
  /\ pc = "extract"
  /\ \E outcome \in ProcOutcomes :
       /\ log' = Append(log, Step("Rscript extract_release.R", version, outcome))
       /\ fs' = IF outcome = "ok" THEN [fs EXCEPT !.csv = TRUE] ELSE fs
       /\ IF outcome = "notfound"
          THEN /\ stdout' = stdout \o <<LineExtracting(version), LineRunning(version)>>
               /\ ExitInsideTry
          ELSE IF ExtractionFatal(outcome)
          THEN /\ stdout' = stdout \o <<LineExtracting(version), LineRunning(version),
                                        LineErrorExtracting>>
               /\ ExitInsideTry
          ELSE /\ stdout' = stdout \o <<LineExtracting(version), LineRunning(version)>>
               /\ pc' = "prepare"
               /\ exitCode' = exitCode
  /\ UNCHANGED <<entry, args, all_versions, versions, version, run, wvars, diff>>

\* main, lines 181-197: source_version is written to the YAML configuration,
\* then the output directories of an earlier run are removed.
PrepareConversion ==
  /\ pc = "prepare"
  /\ \E yamlOk \in BOOLEAN :
       /\ log' = Append(log, Step("yaml", version,
                                  IF yamlOk THEN "ok" ELSE "raises"))
       /\ IF ~yamlOk
          THEN /\ stdout' = stdout \o <<LineToReproschema>>
               /\ fs' = fs
               /\ ExitInsideTry
          ELSE /\ stdout' = stdout \o <<LineToReproschema,
                                        LineSetSourceVersion(version)>>
               /\ IF (fs.outdir \/ fs.oldoutdir) /\ ~ShutilImported
                  THEN /\ fs' = [fs EXCEPT !.source_version = version]
                       /\ ExitInsideTry
                  ELSE /\ fs' = [fs EXCEPT !.source_version = version,
                                           !.outdir = FALSE,
                                           !.oldoutdir = FALSE]
                       /\ pc' = "convert"
                       /\ exitCode' = exitCode
  /\ UNCHANGED <<entry, args, all_versions, versions, version, run, wvars, diff>>

\* main, lines 199-221: the converter subprocess.
Convert ==
  /\ pc = "convert"
  /\ \E outcome \in ProcOutcomes, created \in BOOLEAN :
       /\ outcome = "notfound" => ~created
       /\ log' = Append(log, Step("reproschema nbdc2reproschema", version, outcome))
       /\ fs' = [fs EXCEPT !.outdir = @ \/ created]
       /\ CASE outcome = "notfound" ->
                 /\ stdout' = stdout \o <<LineCommandNotFound>>
                 /\ ExitInsideTry
            [] outcome = "nonzero" ->
                 /\ stdout' = stdout \o <<LineErrorDuringConversion>>
                 /\ ExitInsideTry
            [] outcome = "ok" /\ ~fs'.outdir ->
                 /\ stdout' = stdout \o <<LineNoOutputDir>>
                 /\ ExitInsideTry
            [] OTHER ->
                 /\ stdout' = stdout \o <<LineConversionComplete>>
                 /\ pc' = "validate"
                 /\ exitCode' = exitCode
  /\ UNCHANGED <<entry, args, all_versions, versions, version, run, wvars, diff>>

\* main, lines 223-238: validation of the output.
Validate ==
  /\ pc = "validate"
  /\ \E outcome \in ProcOutcomes :
       LET line == CASE outcome = "ok" -> LineValidationPassed
                     [] outcome = "nonzero" -> LineValidationWarnings
                     [] OTHER -> LineNoValidation
       IN  /\ log' = Append(log, Step("reproschema validate", version, outcome))
           /\ IF ValidationFatal(outcome)
              THEN /\ stdout' = stdout \o <<LineValidating, line>>
                   /\ ExitInsideTry
              ELSE /\ stdout' = stdout \o <<LineValidating, line, LineDone>>
                   /\ pc' = "cleanup"
                   /\ exitCode' = exitCode
  /\ UNCHANGED <<entry, args, fs, all_versions, versions, version, run, wvars,
                 diff>>

\* main, lines 240-248: the finally clause.
Cleanup ==
  /\ pc = "cleanup"
  /\ IF ~args.keep_data
     THEN /\ fs' = [fs EXCEPT !.rda = [exists |-> FALSE, releases |-> <<>>],
                              !.csv = FALSE]
          /\ stdout' = stdout
                \o (IF fs.rda.exists THEN <<LineRemovingRda>> ELSE <<>>)
                \o (IF fs.csv THEN <<LineRemovingCsv>> ELSE <<>>)
     ELSE UNCHANGED <<fs, stdout>>
  /\ log' = Append(log, Step("cleanup", version, "ok"))
  /\ pc' = "exited"
  /\ UNCHANGED <<entry, args, all_versions, versions, version, exitCode, run,
                 wvars, diff>>

\* The user runs convert.py again, with the same arguments, over the working
\* tree a successful run left.
Rerun ==
  /\ pc = "exited"
  /\ exitCode = 0
  /\ run < MaxRuns
  /\ run' = run + 1
  /\ pc' = "download"
  /\ stdout' = <<>>
  /\ all_versions' = <<>>
  /\ versions' = <<>>
  /\ version' = ""
  /\ UNCHANGED <<entry, args, fs, log, exitCode, wvars, diff>>

\* --------------------------------------------------- download_and_convert.py
\* Whether line[i..] starts with the pieces of pat.
MatchesAt(line, i, pat) ==
  /\ i + Len(pat) - 1 <= Len(line)
  /\ SubSeq(line, i, i + Len(pat) - 1) = pat

\* `pat in line`
Contains(line, pat) == \E i \in 1..Len(line) : MatchesAt(line, i, pat)

\* Pieces made of digits and dots only: what [\d.]+ matches.
DigitsAndDots == ReleaseNames

\* re.search(r'Converting HBCD\s+([\d.]+)', line): the positions where the
\* words are followed, after blanks only, by digits and dots.
RegexMatches(line) ==
  {i \in 1..Len(line) :
     /\ MatchesAt(line, i, <<"Converting", "HBCD">>)
     /\ i + 2 <= Len(line)
     /\ line[i + 2] \in DigitsAndDots}

RECURSIVE ParseOutput(_, _)
\* The loop over output_lines, lines 79-92: acc is (version, status) so far.
ParseOutput(lines, acc) ==
  IF lines = <<>> THEN acc
  ELSE LET line == Head(lines)
           next ==
             IF Contains(line, <<"Converting", "HBCD">>)
             THEN IF RegexMatches(line) # {}
                  THEN LET i == CHOOSE k \in RegexMatches(line) :
                                  \A j \in RegexMatches(line) : k <= j
                       IN  [acc EXCEPT !.version = line[i + 2]]
                  ELSE acc
             ELSE IF Contains(line, <<"Error", "during", "conversion">>)
             THEN [acc EXCEPT !.status = "failed"]
             ELSE IF Contains(line, <<"Conversion", "complete">>)
             THEN [acc EXCEPT !.status = "complete"]
             ELSE acc
       IN  ParseOutput(Tail(lines), next)

\* f"v{version}"
TagName(v) == "v" \o (IF v = None THEN "None" ELSE v)

\* A mutation of SystemDefined: the name resolves (as os does).
SystemResolves == TRUE

\* Line 95 reads System.getenv: no name System is bound in the module.
SystemDefined == FALSE

\* Whether the wrapper's download_rda_file returns a path (rather than
\* ending the process).
WrapperDownloadReturnsPath(ok, localCopy) == ok

\* The lines of convert.py's output the wrapper's parser can tell apart.
ConvertLines ==
  {LineConverting(v) : v \in ReleaseNames}
    \cup {LineToReproschema, LineConversionComplete, LineErrorDuringConversion}

RECURSIVE LinesUpTo(_)
\* Captured outputs of at most n lines.
LinesUpTo(n) ==
  IF n = 0 THEN {<<>>}
  ELSE LET shorter == LinesUpTo(n - 1)
       IN  shorter \cup
           {Append(s, l) : s \in {t \in shorter : Len(t) = n - 1},
                           l \in ConvertLines}

WInit ==
  /\ wargs \in [release : ReleaseNames \cup {"", None}, create_tag : BOOLEAN]
  /\ wpc = "download"
  /\ wrda \in BOOLEAN
  /\ fetched = "pending"
  /\ result = [launched |-> FALSE, stdout |-> <<>>, returncode |-> 0]
  /\ report = [version |-> None, status |-> "", written |-> FALSE]
  /\ tagCalls = <<>>
  /\ wexit = 0

WIdle ==
  /\ wargs = [release |-> None, create_tag |-> FALSE]
  /\ wpc = "idle"
  /\ wrda = FALSE
  /\ fetched = "pending"
  /\ result = [launched |-> FALSE, stdout |-> <<>>, returncode |-> 0]
  /\ report = [version |-> None, status |-> "", written |-> FALSE]
  /\ tagCalls = <<>>
  /\ wexit = 0

\* main, lines 62-65, with download_rda_file.
WrapperDownload ==
  /\ wpc = "download"
  /\ \E ok \in BOOLEAN :
       /\ fetched' = IF ok THEN "ok" ELSE "failed"
       /\ IF WrapperDownloadReturnsPath(ok, wrda)
          THEN /\ wrda' = TRUE
               /\ wpc' = "launch"
               /\ wexit' = wexit
          ELSE /\ wrda' = wrda
               /\ wpc' = "exited"
               /\ wexit' = 1
  /\ UNCHANGED <<entry, cvars, wargs, result, report, tagCalls, diff>>

\* main, lines 67-75: the command line is built and printed, then run.  With
\* args.release None, ' '.join raises TypeError before anything is run.
WrapperLaunch ==
  /\ wpc = "launch"
  /\ IF wargs.release = None
     THEN /\ wpc' = "exited"
          /\ wexit' = 1
          /\ result' = result
     ELSE \E found \in BOOLEAN, out \in LinesUpTo(MaxStdoutLines),
             rc \in {0, 1} :
            IF found
            THEN /\ result' = [launched |-> TRUE, stdout |-> out,
                               returncode |-> rc]
                 /\ wpc' = "report"
                 /\ wexit' = wexit
            ELSE /\ out = <<>> /\ rc = 0
                 /\ result' = result
                 /\ wpc' = "exited"
                 /\ wexit' = 1
  /\ UNCHANGED <<entry, cvars, wargs, wrda, fetched, report, tagCalls, diff>>

\* main, lines 77-116: the output is parsed, the outputs are written, the tag
\* is created and the process exits.
WrapperReport ==
  /\ wpc = "report"
  /\ LET parsed == ParseOutput(result.stdout,
                               [version |-> None, status |-> "success"])
     IN  IF ~SystemDefined
         THEN /\ report' = [version |-> parsed.version,
                            status |-> parsed.status, written |-> FALSE]
              /\ tagCalls' = tagCalls
              /\ wexit' = 1
         ELSE /\ report' = [version |-> parsed.version,
                            status |-> parsed.status, written |-> TRUE]
              /\ tagCalls' = IF wargs.create_tag /\ parsed.status = "complete"
                             THEN Append(tagCalls, TagName(parsed.version))
                             ELSE tagCalls
              /\ wexit' = IF parsed.status = "complete" THEN 0 ELSE 1
  /\ wpc' = "exited"
  /\ UNCHANGED <<entry, cvars, wargs, wrda, fetched, result, diff>>

\* ------------------------------------------------------- version diffing
\* Names of existing git tags.
TagNames == ReleaseNames \cup {"v1.0"}

NoDiff == [done |-> FALSE, tags |-> {}, unconverted |-> <<>>]

\* The releases of `found`, in order, that no existing tag names.
Unconverted(found, tags) == SelectSeq(found, LAMBDA v : v \notin tags)

\* The version resolver run to list every release of a fetched RDA file.
DInit ==
  /\ entry = "diff"
  /\ args \in [release : {""}, skip_extract : BOOLEAN, keep_data : BOOLEAN]
  /\ pc = "resolve"
  /\ fs \in [rda : {[exists |-> TRUE, releases |-> c] : c \in RdaContents},
             csv : {FALSE}, outdir : {FALSE}, oldoutdir : {FALSE},
             source_version : {"1.0"}]
  /\ all_versions = <<>>
  /\ versions = <<>>
  /\ version = ""
  /\ stdout = <<>>
  /\ log = <<>>
  /\ exitCode = 0
  /\ run = 1
  /\ WIdle
  /\ diff \in {[done |-> FALSE, tags |-> t, unconverted |-> <<>>] :
                 t \in {u \in SUBSET TagNames : Cardinality(u) <= MaxTags}}

\* The discovered releases are diffed against the existing tags.
FindUnconverted ==
  /\ entry = "diff"
  /\ pc \in {"extract", "prepare"}
  /\ ~diff.done
  /\ diff' = [diff EXCEPT !.done = TRUE,
                          !.unconverted = Unconverted(versions, diff.tags)]
  /\ UNCHANGED <<entry, cvars, wvars>>

DNext == ResolveVersion \/ FindUnconverted

SpecDiff == DInit /\ [][DNext]_vars

Init ==
  \/ entry = "convert" /\ CInit /\ WIdle /\ diff = NoDiff
  \/ entry = "wrapper" /\ CIdle /\ WInit /\ diff = NoDiff

Next ==
  \/ Download
  \/ ResolveVersion
  \/ Extract
  \/ PrepareConversion
  \/ Convert
  \/ Validate
  \/ Cleanup
  \/ Rerun
  \/ WrapperDownload
  \/ WrapperLaunch
  \/ WrapperReport

Spec == Init /\ [][Next]_vars

\* ----------------------------------------------------------------- claims
\* The steps of the current run of convert.py, in order.
ThisRun == SelectSeq(log, LAMBDA e : e.run = run)

\* Whether the current run took step `name` with outcome `outcome`.
Took(name, outcome) ==
  \E i \in 1..Len(ThisRun) :
    ThisRun[i].step = name /\ ThisRun[i].outcome = outcome

Ran(name) == \E i \in 1..Len(ThisRun) : ThisRun[i].step = name

Subprocesses ==
  {"Rscript -e", "Rscript extract_release.R",
   "reproschema nbdc2reproschema", "reproschema validate"}

ConvertExited == entry = "convert" /\ pc = "exited"

\* C1 (as stated): whenever any subprocess convert.py invokes (version
\* listing, extraction, converter or validator) returns a non-zero exit
\* code, convert.py terminates with a non-zero exit status.
C1_AnySubprocessFailureIsFatal ==
  (ConvertExited /\ \E p \in Subprocesses : Took(p, "nonzero"))
    => exitCode # 0

\* C1 (amended): whenever the version listing, the extraction or the
\* converter returns a non-zero exit code, convert.py terminates with a
\* non-zero exit status; the validator's exit code is not among them.
C1_FatalSubprocessFailure ==
  (ConvertExited /\ \E p \in Subprocesses \ {"reproschema validate"} :
                      Took(p, "nonzero"))
    => exitCode # 0

C1_Witness ==
  /\ ConvertExited
  /\ Took("Rscript extract_release.R", "nonzero")
  /\ exitCode = 1

\* C2: run without --keep-data, however the run ends after the RDA file was
\* downloaded, neither data/lst_dds.rda nor data/hbcd_<release>.csv exists
\* when the process exits.
C2_TemporaryFilesRemoved ==
  (ConvertExited /\ ~args.keep_data /\ Took("download", "ok"))
    => (~fs.rda.exists /\ ~fs.csv)

\* C3: the wrapper exits with status 0 only if the convert.py subprocess it
\* launched exited with status 0.
C3_WrapperSuccessNeedsConvertSuccess ==
  (entry = "wrapper" /\ wpc = "exited" /\ wexit = 0)
    => (result.launched /\ result.returncode = 0)

C3_Witness ==
  /\ entry = "wrapper"
  /\ wpc = "exited"
  /\ result.launched
  /\ result.returncode # 0
  /\ report.status = "complete"
  /\ wexit # 0

\* C4: once the converter has succeeded and the output directory exists,
\* whatever `reproschema validate` does, convert.py prints Done, runs the
\* cleanup and exits with status 0.
C4_ValidationNonFatal ==
  (/\ ConvertExited
   /\ Took("reproschema nbdc2reproschema", "ok")
   /\ \E i \in 1..Len(stdout) : stdout[i] = LineConversionComplete)
    => /\ Ran("reproschema validate")
       /\ \E i \in 1..Len(stdout) : stdout[i] = LineDone
       /\ Ran("cleanup")
       /\ exitCode = 0

C4_Witness ==
  /\ ConvertExited
  /\ Took("reproschema validate", "nonzero")
  /\ exitCode = 0

\* C5 (as stated): when the HTTP download fails and a copy of lst_dds.rda is
\* on disk, the pipeline continues with that copy instead of terminating
\* with an error, in convert.py and in the wrapper.
C5_LocalCopyFallback ==
  /\ (entry = "convert" /\ Took("download", "failed") /\ fs.rda.exists)
       => ~(pc = "exited" /\ exitCode # 0 /\ ~Ran("Rscript -e"))
  /\ (entry = "wrapper" /\ fetched = "failed" /\ wrda)
       => ~(wpc = "exited" /\ wexit # 0 /\ ~result.launched)

\* C5 (amended): when the HTTP download fails, both scripts terminate with
\* exit status 1 without starting any later stage, whether or not a copy of
\* lst_dds.rda is on disk; the copy on disk is left as it was.
C5_DownloadFailureIsFatal ==
  /\ (entry = "convert" /\ Took("download", "failed"))
       => /\ pc = "exited"
          /\ exitCode = 1
          /\ Len(ThisRun) = 1
  /\ (entry = "wrapper" /\ fetched = "failed")
       => /\ wpc = "exited"
          /\ wexit = 1
          /\ ~result.launched

C5_Witness ==
  /\ entry = "convert"
  /\ Took("download", "failed")
  /\ fs.rda.exists
  /\ pc = "exited"

\* C6: when --release is omitted, the wrapper still launches the conversion
\* (the release being detected by convert.py) instead of failing because no
\* release was given.
C6_ReleaseOptional ==
  (/\ entry = "wrapper"
   /\ wargs.release = None
   /\ fetched = "ok"
   /\ wpc = "exited")
    => result.launched

\* The captured output of a convert.py run that completed for release r, as
\* far as the wrapper's parser tells lines apart.
CompletedFor(r) ==
  /\ result.launched
  /\ result.returncode = 0
  /\ result.stdout = <<LineConverting(r), LineToReproschema,
                       LineConversionComplete>>

\* C7: run with --create-tag, when the conversion completes for release R the
\* wrapper invokes git to create the tag v<R> and then exits with status 0.
C7_TagNamesConvertedRelease ==
  \A r \in ReleaseNames :
    (/\ entry = "wrapper"
     /\ wargs.create_tag
     /\ wpc = "exited"
     /\ CompletedFor(r))
      => (tagCalls = <<"v" \o r>> /\ wexit = 0)

\* C8: the version diff returns exactly the releases present in the fetched
\* RDA file that no existing git tag names.
C8_DiffIsSetDifference ==
  diff.done
    => Range(diff.unconverted) = Range(fs.rda.releases) \ diff.tags

C8_Witness ==
  /\ diff.done
  /\ Len(fs.rda.releases) = 2
  /\ Len(diff.unconverted) = 1
  /\ diff.tags \cap Range(fs.rda.releases) # {}

StageRank(name) ==
  CASE name = "download" -> 1
    [] name = "Rscript -e" -> 2
    [] name = "Rscript extract_release.R" -> 3
    [] name = "yaml" -> 4
    [] name = "reproschema nbdc2reproschema" -> 5
    [] name = "reproschema validate" -> 6
    [] OTHER -> 7

\* C9: convert.py runs download, version resolution, extraction, conversion
\* and validation in that order, each only after every earlier stage
\* succeeded: extraction and converter only for a release in the list read
\* from the RDA file, the converter never after a failed extraction, and
\* validation only after the converter exited 0 with the output directory
\* present.
C9_StagesInOrder ==
  entry = "convert" =>
    \A j \in 1..Len(ThisRun) :
      LET e == ThisRun[j]
      IN  /\ \A i \in 1..(j - 1) :
               /\ StageRank(ThisRun[i].step) < StageRank(e.step)
               /\ e.step # "cleanup" => ThisRun[i].outcome = "ok"
          /\ e.step \in {"Rscript extract_release.R",
                         "reproschema nbdc2reproschema"}
               => e.version \in Range(all_versions)
          /\ e.step = "reproschema nbdc2reproschema"
               => (args.skip_extract \/ Took("Rscript extract_release.R", "ok"))
          /\ e.step = "reproschema validate"
               => (Took("reproschema nbdc2reproschema", "ok") /\ fs.outdir)

C9_Witness ==
  /\ ConvertExited
  /\ args.release # ""
  /\ Len(all_versions) = 2
  /\ Took("Rscript extract_release.R", "ok")
  /\ Ran("reproschema validate")

\* C10: when a run reaches the conversion step and an output directory left
\* by an earlier run exists, the directory is removed, the converter is
\* invoked and the run continues: a second run over the output of a first,
\* in which every step succeeds, invokes the converter.
C10_RerunSucceeds ==
  (/\ ConvertExited
   /\ run = 2
   /\ \A i \in 1..Len(log) : log[i].outcome = "ok"
   /\ Took("yaml", "ok"))
    => Ran("reproschema nbdc2reproschema")

====
